---- MODULE Spec2Model ----
(***************************************************************************)
(* A model of the PDF summarizer backend (src/backend): the retrieval      *)
(* index, the summarize endpoint with its single-flight guard              *)
(* (_processing_summaries), the segment packing loop, summarize_segments   *)
(* and the recursive reduction make_final_summary; the page extraction    *)
(* extract_pdf_chunks; the upload, list, delete, ask and extract-full     *)
(* endpoints and the summary cache file they share with summarize.        *)
(*                                                                         *)
(* The handlers are asyncio coroutines on one event loop: a handler runs   *)
(* without interruption from one await that suspends to the next.  The     *)
(* only awaits that suspend in summarize_document are the completion       *)
(* provider calls (client.post) and the await of a pending future, so one  *)
(* action is the code from one of these awaits to the next.                *)
(*                                                                         *)
(* Texts are not modelled character by character.  A text is a record      *)
(*   tok  : its token count (what count_tokens returns for it),            *)
(*   src  : the indices of the per-segment summaries it literally holds,   *)
(*   kind : "resp" (a provider response), "segerr" (the per-segment error  *)
(*          marker), "finalerr" (the fixed final-summary error text).      *)
(* count_tokens is a capability handed to summarize_segments; it is taken  *)
(* to be additive over concatenation.                                      *)
(***************************************************************************)
EXTENDS Integers, Sequences, FiniteSets, TLC

\* ------------------------------------------------------------------ bounds

\* Number of summarize requests (callers) in a run.
MaxCallers == 3
\* Longest extracted chunk list, and most pages, of a small document.
MaxChunks == 3
\* Highest page number of a small document.
MaxPage == 2
\* Frames of make_final_summary the interpreter allows before RecursionError
\* (stands for sys.getrecursionlimit()).
MaxDepth == 4

\* ------------------------------------------------------- program constants

\* top_k of the retrieval in summarize_document.
TOP_K == 100
\* MAX_SEGMENT_TOKENS of the packing loop.
MAX_SEGMENT_TOKENS == 500
\* The combine ceiling of make_final_summary.
COMBINE_CEILING == 3500

\* "PART {i+1}:\n" in front of every part, "\n\n" between parts.
PartLabel == <<"PART", "i", ":", "\n">>
PartSeparator == <<"\n\n">>
\* "[Error summarizing segment {i+1}]"
SegmentErrorMarker == <<"[", "Error", "summarizing", "segment", "i", "]">>
\* "Error generating final summary."
FinalErrorText == <<"Error", "generating", "final", "summary", ".">>

\* The pool of file ids (uuid4 values) and the filename each upload carries.
FileIds == {"d1", "d2"}
Filename(d) == IF d = "d1" THEN "a.pdf" ELSE "b.pdf"

Callers == 1 .. MaxCallers
\* No future: the key is absent from _processing_summaries.
NoFuture == 0

\* ------------------------------------------------------------------- texts

Text(tok, src, kind) == [tok |-> tok, src |-> src, kind |-> kind]
EmptyText == Text(0, {}, "resp")
count_tokens(t) == t.tok

RECURSIVE SumTok(_)
SumTok(parts) ==
    IF parts = <<>> THEN 0 ELSE count_tokens(Head(parts)) + SumTok(Tail(parts))

RECURSIVE UnionSrc(_)
UnionSrc(parts) ==
    IF parts = <<>> THEN {} ELSE Head(parts).src \cup UnionSrc(Tail(parts))

\* combined = "\n\n".join([f"PART {i+1}:\n{s}" for i, s in enumerate(parts)])
Combined(parts) ==
    Text(SumTok(parts) + Len(parts) * Len(PartLabel)
            + (IF Len(parts) > 0 THEN (Len(parts) - 1) * Len(PartSeparator) ELSE 0),
         UnionSrc(parts), "prompt")

\* f"[Error summarizing segment {i+1}]" for the segment at 1-based position i.
ErrorMarker(i) == Text(Len(SegmentErrorMarker), {i}, "segerr")
FinalError == Text(Len(FinalErrorText), {}, "finalerr")

\* ------------------------------------------------------ extract_pdf_chunks

\* if not text or len(text.strip()) < 20
MIN_TEXT_CHARS == 20
\* max_chars = 3000
max_chars == 3000

\* A page as the capabilities see it.  native: what page.extract_text()
\* does, raise or return a text (by its length once stripped; None and ""
\* are length 0).  ocr: what rendering and recognition do when tried:
\* convert_from_path raises ("raises"), returns no image ("no_image"), or
\* ocr_image returns a cleaned text ("text"; length 0 when pytesseract
\* raised, which ocr_image turns into "").
Page(native_ok, native_len, ocr_how, ocr_len) ==
    [native |-> [ok |-> native_ok, len |-> native_len],
     ocr |-> [how |-> ocr_how, len |-> ocr_len]]

\* The length of clean_ocr_text(text) for one page, lines 51-66.
PageTextLength(page) ==
    LET native == IF page.native.ok THEN page.native.len ELSE 0 IN
    IF native < MIN_TEXT_CHARS /\ page.ocr.how = "text"
    THEN page.ocr.len
    ELSE native

\* The sub-chunks of a page text of `length` characters, lines 68-75: none
\* for an empty text.
SubChunks(page_num, length) ==
    [k \in 1 .. (length + max_chars - 1) \div max_chars |->
        [page |-> page_num,
         chars |-> IF k * max_chars <= length THEN max_chars
                   ELSE length - (k - 1) * max_chars]]

RECURSIVE ChunksFrom(_, _)
ChunksFrom(pages, i) ==
    IF i > Len(pages) THEN <<>>
    ELSE SubChunks(i, PageTextLength(pages[i])) \o ChunksFrom(pages, i + 1)

\* extract_pdf_chunks(pdf_path, filename): no chunk when PdfReader raises.
extract_pdf_chunks(pdf) ==
    IF pdf.opens THEN ChunksFrom(pdf.pages, 1) ELSE <<>>

\* ------------------------------------------------------------------- index

\* What extract_pdf_chunks hands to the index for one chunk: page and text
\* (the text by its token count).
Extracted(page, tok) == [page |-> page, tok |-> tok]

\* The records add_document_chunks stores for one upload: one per chunk, in
\* the order given, chunk_index counting from 0.
StoredChunks(chunks, file_id, filename) ==
    [i \in 1 .. Len(chunks) |->
        [id |-> <<file_id, i - 1>>,
         file_id |-> file_id,
         filename |-> filename,
         page |-> chunks[i].page,
         chunk_index |-> i - 1,
         total_chunks |-> Len(chunks),
         tok |-> chunks[i].tok]]

add_document_chunks(collection, chunks, file_id, filename) ==
    collection \o StoredChunks(chunks, file_id, filename)

\* The records of the collection that pass where={"file_id": {"$eq": f}}.
WhereFileId(collection, f) ==
    LET Match(r) == r.file_id = f IN SelectSeq(collection, Match)

\* The orders in which the vector store may rank n matching records: the
\* rank is by distance to the query embedding, which the caller does not
\* control.  Every permutation for a small n; the stored order and its
\* reverse beyond that.
Orders(n) ==
    IF n <= MaxChunks
    THEN {p \in [1 .. n -> 1 .. n] : \A i, j \in 1 .. n : i # j => p[i] # p[j]}
    ELSE {[i \in 1 .. n |-> i], [i \in 1 .. n |-> n + 1 - i]}

Min(a, b) == IF a <= b THEN a ELSE b

\* file_id_filter: Optional[str] = None
None == "None"

\* where_filter = {"file_id": {"$eq": file_id_filter}} if file_id_filter
\* else None: the records the query ranks.  None and the empty string are
\* both false in the condition, and then no filter is passed.
Matching(collection, file_id_filter) ==
    IF file_id_filter \in {None, ""} THEN collection
    ELSE WhereFileId(collection, file_id_filter)

\* find_relevant_chunks(collection, query, top_k, file_id_filter): the top_k
\* nearest of the matching records, nearest first, under the ranking `order`.
find_relevant_chunks(collection, top_k, file_id_filter, order) ==
    LET matching == Matching(collection, file_id_filter)
    IN  [i \in 1 .. Min(top_k, Len(matching)) |-> matching[order[i]]]

\* add_document_chunks when a call it makes may raise.  fault = 0: none does;
\* fault = i in 1 .. len(chunks): generate_embedding raises for chunk i, in
\* the loop that only fills the four lists; fault = len(chunks) + 1:
\* collection.add raises, the one write of the batch.  The collection after.
AddedChunkByChunk(collection, chunks, file_id, filename, fault) ==
    IF fault = 0 THEN add_document_chunks(collection, chunks, file_id, filename)
    ELSE collection \o SubSeq(StoredChunks(chunks, file_id, filename), 1, fault - 1)
Added(collection, chunks, file_id, filename, fault) ==
    IF fault = 0 THEN add_document_chunks(collection, chunks, file_id, filename)
    ELSE collection

\* delete_document: collection.get(where file_id), collection.delete(ids).
\* The collection after.
RemainingUntouched(collection, file_id) == collection
Remaining(collection, file_id) ==
    LET Other(r) == r.file_id # file_id IN SelectSeq(collection, Other)

\* return True if results['ids'] else False
delete_document_found(collection, file_id) ==
    WhereFileId(collection, file_id) # <<>>

\* The "documents" of list_documents: one entry per file_id met in the scan
\* of the metadatas, with the filename of the first record met and the
\* number of records met.
list_documents(collection) ==
    {[file_id |-> f,
      filename |-> WhereFileId(collection, f)[1].filename,
      chunks |-> Len(WhereFileId(collection, f))]
        : f \in {collection[i].file_id : i \in 1 .. Len(collection)}}

\* get_collection_stats: total_chunks
total_chunks(collection) == Len(collection)

\* ----------------------------------------------------- summarize_document

\* all_chunks.sort(key=lambda x: x["metadata"]["page"]): list.sort is stable,
\* so chunks of one page keep the order the index returned them in.  The
\* place of chunks[i] after the sort: behind every chunk of a lower page and
\* every chunk of its own page that came before it.
SortedPlace(chunks, i) ==
    1 + Cardinality({j \in 1 .. Len(chunks) :
                        \/ chunks[j].page < chunks[i].page
                        \/ chunks[j].page = chunks[i].page /\ j < i})

SortByPage(chunks) ==
    [k \in 1 .. Len(chunks) |->
        chunks[CHOOSE i \in 1 .. Len(chunks) : SortedPlace(chunks, i) = k]]

\* The packing loop: segments are kept as the lists of chunks joined into
\* them (the code joins their texts with " ").

\* if current_tokens + tok > MAX_SEGMENT_TOKENS and current_segment
ClosesEvenWhenEmpty(current_tokens, tok, current_segment, ceiling) ==
    current_tokens + tok > ceiling
Closes(current_tokens, tok, current_segment, ceiling) ==
    current_tokens + tok > ceiling /\ current_segment # <<>>

\* if current_segment: segments.append(" ".join(current_segment))
FlushForgotten(segments, current_segment) == segments
Flush(segments, current_segment) ==
    IF current_segment # <<>> THEN Append(segments, current_segment)
    ELSE segments

\* One turn of the loop `for chunk in all_chunks`, on the loop's variables.
PackStep(loop, chunk, ceiling) ==
    IF Closes(loop.current_tokens, chunk.tok, loop.current_segment, ceiling)
    THEN [segments |-> Append(loop.segments, loop.current_segment),
          current_segment |-> <<chunk>>,
          current_tokens |-> chunk.tok]
    ELSE [segments |-> loop.segments,
          current_segment |-> Append(loop.current_segment, chunk),
          current_tokens |-> loop.current_tokens + chunk.tok]

\* The loop over chunks[lo .. hi] in order, from the variables `loop`: the
\* first half of the range, then the second from where the first ended.
\* (TLC evaluates definitions and arguments on demand; the test on the
\* token count, which is never negative, makes it finish the first half
\* before it enters the second, so that the evaluation nests only as deep
\* as the halving and not as deep as the list is long.)
RECURSIVE PackRange(_, _, _, _, _)
PackRange(chunks, lo, hi, loop, ceiling) ==
    IF lo > hi \/ loop.current_tokens < 0 THEN loop
    ELSE IF lo = hi THEN PackStep(loop, chunks[lo], ceiling)
    ELSE LET mid == (lo + hi) \div 2
             half == PackRange(chunks, lo, mid, loop, ceiling)
         IN  PackRange(chunks, mid + 1, hi, half, ceiling)

PlanSegments(chunks, ceiling) ==
    LET loop == PackRange(chunks, 1, Len(chunks),
                          [segments |-> <<>>, current_segment |-> <<>>,
                           current_tokens |-> 0],
                          ceiling)
    IN  Flush(loop.segments, loop.current_segment)

\* max(c["metadata"]["page"] for c in all_chunks)
MaxPageOf(chunks) ==
    CHOOSE p \in {chunks[i].page : i \in 1 .. Len(chunks)} :
        \A i \in 1 .. Len(chunks) : chunks[i].page <= p

\* ------------------------------------------------------ make_final_summary

Frame(parts, pc) ==
    [parts |-> parts, pc |-> pc, first |-> EmptyText, second |-> EmptyText]

\* if count_tokens(combined) < 3500
FitsAtCeiling(parts) == count_tokens(Combined(parts)) <= COMBINE_CEILING
Fits(parts) == count_tokens(Combined(parts)) < COMBINE_CEILING

\* mid = len(parts) // 2; parts[:mid]; parts[mid:]
FirstHalf(parts) == SubSeq(parts, 1, Len(parts) \div 2)
SecondHalfSkipsMid(parts) == SubSeq(parts, (Len(parts) \div 2) + 2, Len(parts))
SecondHalf(parts) == SubSeq(parts, (Len(parts) \div 2) + 1, Len(parts))

\* A call make_final_summary(parts) made with `stack` frames already open,
\* run up to its first client.post: the new frames, whether the interpreter
\* ran out of frames instead, and whether the else branch was taken.
RECURSIVE Call(_, _)
Call(stack, parts) ==
    IF Len(stack) >= MaxDepth
    THEN [stack |-> stack, status |-> "overflow", split |-> FALSE,
          value |-> EmptyText]
    ELSE IF Fits(parts)
    THEN [stack |-> Append(stack, Frame(parts, "post")), status |-> "posted",
          split |-> FALSE, value |-> EmptyText]
    ELSE [Call(Append(stack, Frame(parts, "first")), FirstHalf(parts))
            EXCEPT !.split = TRUE]

\* The frame on top of `stack` returns v to its caller, which runs on up to
\* the next client.post, or returns in turn.
RECURSIVE Return(_, _)
Return(stack, v) ==
    LET rest == SubSeq(stack, 1, Len(stack) - 1) IN
    IF rest = <<>>
    THEN [stack |-> <<>>, status |-> "returned", split |-> FALSE, value |-> v]
    ELSE LET caller == rest[Len(rest)] IN
         CASE caller.pc = "first" ->
                Call([rest EXCEPT ![Len(rest)].first = v,
                                  ![Len(rest)].pc = "second"],
                     SecondHalf(caller.parts))
           [] caller.pc = "second" ->
                Call([rest EXCEPT ![Len(rest)].second = v,
                                  ![Len(rest)].pc = "third"],
                     <<caller.first, v>>)
           [] OTHER -> Return(rest, v)

\* The parts of the combining request now awaiting the provider.
Posted(stack) == stack[Len(stack)].parts

\* A synthetic provider that concatenates its inputs: the text of the parts
\* one after the other.
Concatenation(parts) == Text(SumTok(parts), UnionSrc(parts), "resp")

\* ------------------------------------------------------------------- state

VARIABLES
    collection,   \* the records of the "pdf_documents" collection, in insertion order
    processing,   \* _processing_summaries: file_id -> future (NoFuture: key absent)
    futures,      \* every future created, by number: its file_id, state, result
                  \* and the request that created it (requests are not
                  \* cancelled: a handler runs to its return or its exception)
    pc,           \* each request: "idle", "computing", "joined" or "done"
    request,      \* each request: the file_id it was made for
    awaiting,     \* each request: the future it created or awaits
    outcome,      \* each request: what it returned or raised
    comp,         \* per file_id: the locals of the running summarize_document
    cache,        \* per file_id: the <file_id>_summaries.json record
    plan,         \* the packing loop on its own: input, ceiling, output
    extraction,   \* extract_pdf_chunks on its own: the pages, the chunks returned
    last          \* the latest call of an operation other than summarize:
                  \* its arguments and what it returned

vars == <<collection, processing, futures, pc, request, awaiting, outcome,
          comp, cache, plan, extraction, last>>

\* The state of the summarize requests and of the two loops on their own.
summarizeVars == <<processing, futures, pc, request, awaiting, outcome, comp, plan,
                   extraction>>

NoBody ==
    [file_id |-> "", filename |-> "", summary |-> EmptyText, total_chunks |-> 0,
     segments |-> 0, pages |-> 0]
NoOutcome == [kind |-> "none", status |-> 0, exc |-> "", body |-> NoBody]
\* A JSONResponse returned (status 200).
Returned(body) == [kind |-> "response", status |-> 200, exc |-> "", body |-> body]
\* An exception leaving the handler: HTTPException keeps its status_code,
\* anything else is answered 500.
Raised(exc) ==
    [kind |-> "error", status |-> IF exc = "HTTPException404" THEN 404 ELSE 500,
     exc |-> exc, body |-> NoBody]

IdleComp ==
    [phase |-> "idle", owner |-> 0, future |-> NoFuture,
     all_chunks |-> <<>>, segments |-> <<>>, summaries |-> <<>>,
     replies |-> <<>>, stack |-> <<>>, split |-> FALSE, concat |-> TRUE,
     combine |-> "none", final_summary |-> EmptyText, exc |-> "",
     cache_write |-> "none", runs |-> 0]

NoRecord == [state |-> "absent", summaries |-> <<>>, filename |-> ""]

IdlePlan == [chunks |-> <<>>, ceiling |-> 0, segments |-> <<>>, done |-> FALSE]

IdleExtraction ==
    [pdf |-> [opens |-> TRUE, pages |-> <<>>], chunks |-> <<>>, done |-> FALSE]

\* No call made yet.  The fields a call does not use keep these values.
\* provider and response record how the provider call of an ask ended
\* ("ok" or "failed") and the text of a successful response.
NoCall ==
    [op |-> "none", file_id |-> "", top_k |-> 0, phase |-> "none", status |-> 0,
     found |-> FALSE, count |-> 0, documents |-> {}, results |-> <<>>,
     given |-> 0, summaries |-> <<>>, filename |-> "", answer |-> <<>>,
     sources |-> <<>>, provider_calls |-> 0,
     provider |-> "none", response |-> <<>>]

\* The state after construction: nothing indexed, no request in flight.
InitAll(coll, p, e) ==
    /\ collection = coll
    /\ processing = [d \in FileIds |-> NoFuture]
    /\ futures = <<>>
    /\ pc = [c \in Callers |-> "idle"]
    /\ request = [c \in Callers |-> ""]
    /\ awaiting = [c \in Callers |-> NoFuture]
    /\ outcome = [c \in Callers |-> NoOutcome]
    /\ comp = [d \in FileIds |-> IdleComp]
    /\ cache = [d \in FileIds |-> NoRecord]
    /\ plan = p
    /\ extraction = e
    /\ last = NoCall

InitWith(coll, p) == InitAll(coll, p, IdleExtraction)

Init == InitWith(<<>>, IdlePlan)

\* ------------------------------------------------------------------ upload

\* upload_pdf: a fresh file_id, the extracted chunks indexed in one add.
Upload(d, chunks) ==
    /\ WhereFileId(collection, d) = <<>>
    /\ chunks # <<>>
    /\ collection' = add_document_chunks(collection, chunks, d, Filename(d))
    /\ UNCHANGED <<processing, futures, pc, request, awaiting, outcome, comp,
                   cache, plan, extraction, last>>

\* --------------------------------------------------------------- summarize

\* The JSONResponse of summarize_document.
Response(d, c) ==
    [file_id |-> d,
     filename |-> c.all_chunks[1].filename,
     summary |-> c.final_summary,
     total_chunks |-> Len(c.all_chunks),
     segments |-> Len(c.segments),
     pages |-> MaxPageOf(c.all_chunks)]

\* if file_id in _processing_summaries
PendingNever(proc, d) == FALSE
Pending(proc, d) == proc[d] # NoFuture

\* if not all_chunks: raise HTTPException(status_code=404, ...)
NoChunksNever(all_chunks) == FALSE
NoChunks(all_chunks) == all_chunks = <<>>

\* finally: _processing_summaries.pop(file_id, None)
PoppedOnSuccessOnly(proc, d, raised) ==
    IF raised THEN proc ELSE [proc EXCEPT ![d] = NoFuture]
Popped(proc, d, raised) == [proc EXCEPT ![d] = NoFuture]

\* An exception leaves summarize_document: the finally clause pops the key;
\* the future is left as it is.
RaiseFrom(d, c, exc) ==
    /\ comp' = [comp EXCEPT ![d] = [c EXCEPT !.phase = "raised", !.exc = exc]]
    /\ processing' = Popped(processing, d, TRUE)
    /\ pc' = [pc EXCEPT ![c.owner] = "done"]
    /\ outcome' = [outcome EXCEPT ![c.owner] = Raised(exc)]
    /\ UNCHANGED <<futures, cache>>

\* summarize_document from its entry to its first await: join the pending
\* future of the file_id, or register a new one, retrieve, sort and pack.
\* Requests are numbered in the order they arrive.
SummarizeEnter(r, d) ==
    /\ pc[r] = "idle"
    /\ \A q \in Callers : q < r => pc[q] # "idle"
    /\ request' = [request EXCEPT ![r] = d]
    /\ IF Pending(processing, d)
       THEN /\ pc' = [pc EXCEPT ![r] = "joined"]
            /\ awaiting' = [awaiting EXCEPT ![r] = processing[d]]
            /\ UNCHANGED <<processing, futures, outcome, comp>>
       ELSE \E order \in Orders(Len(WhereFileId(collection, d))) :
            LET future == Len(futures) + 1
                found == find_relevant_chunks(collection, TOP_K, d, order)
                all_chunks == SortByPage(found)
                segments == PlanSegments(all_chunks, MAX_SEGMENT_TOKENS)
                started == [IdleComp EXCEPT
                              !.owner = r, !.future = future,
                              !.runs = comp[d].runs + 1]
            IN  /\ futures' = Append(futures,
                       [file_id |-> d, state |-> "pending", result |-> NoOutcome,
                        owner |-> r])
                /\ awaiting' = [awaiting EXCEPT ![r] = future]
                /\ IF NoChunks(found)
                   THEN /\ comp' = [comp EXCEPT ![d] =
                               [started EXCEPT !.phase = "raised",
                                               !.exc = "HTTPException404"]]
                        /\ pc' = [pc EXCEPT ![r] = "done"]
                        /\ outcome' = [outcome EXCEPT ![r] = Raised("HTTPException404")]
                        /\ processing' =
                               Popped([processing EXCEPT ![d] = future], d, TRUE)
                   ELSE /\ comp' = [comp EXCEPT ![d] =
                               [started EXCEPT !.phase = "segments",
                                               !.all_chunks = all_chunks,
                                               !.segments = segments]]
                        /\ pc' = [pc EXCEPT ![r] = "computing"]
                        /\ processing' = [processing EXCEPT ![d] = future]
                        /\ UNCHANGED outcome
    /\ UNCHANGED <<collection, cache, plan, extraction, last>>

\* What summarize_segments appends for the segment at 1-based position i:
\* the provider's response, or the error marker when the call raised.
SegmentSummaryMarksPrevious(reply, i) ==
    IF reply.ok THEN reply.text ELSE ErrorMarker(i - 1)
SegmentSummary(reply, i) == IF reply.ok THEN reply.text ELSE ErrorMarker(i)

\* The provider answers (or fails) the request for the next segment; after the
\* last segment make_final_summary(summaries) runs to its first request.
\* sizes: the token counts a response may have.
SegmentReply(d, sizes) ==
    LET c == comp[d]
        i == Len(c.summaries) + 1
    IN
    /\ c.phase = "segments"
    /\ \E reply \in {[ok |-> FALSE, text |-> EmptyText]}
                    \cup {[ok |-> TRUE, text |-> Text(n, {i}, "resp")] : n \in sizes} :
       LET summaries == Append(c.summaries, SegmentSummary(reply, i))
           next == [c EXCEPT !.summaries = summaries,
                             !.replies = Append(c.replies, reply)]
           call == Call(<<>>, summaries)
       IN  IF Len(summaries) < Len(c.segments)
           THEN /\ comp' = [comp EXCEPT ![d] = next]
                /\ UNCHANGED <<processing, futures, pc, outcome, cache>>
           ELSE IF call.status = "overflow"
           THEN RaiseFrom(d, [next EXCEPT !.split = call.split], "RecursionError")
           ELSE /\ comp' = [comp EXCEPT ![d] =
                       [next EXCEPT !.phase = "reduce", !.stack = call.stack,
                                    !.split = call.split]]
                /\ UNCHANGED <<processing, futures, pc, outcome, cache>>
    /\ UNCHANGED <<collection, request, awaiting, plan, extraction, last>>

\* The cache file after the write at the end of summarize_segments:
\* "written", or the open failed (the file is as it was), or the dump failed
\* after open(.., "w") had truncated the file.
CacheAfter(old, how, summaries, filename) ==
    CASE how = "written" ->
            [state |-> "complete", summaries |-> summaries, filename |-> filename]
      [] how = "dump_failed" ->
            [state |-> "partial", summaries |-> <<>>, filename |-> ""]
      [] OTHER -> old

\* What the call of make_final_summary that posted the request returns:
\* final_data.get("response", ""), or the fixed text when the call raised.
CombineResultLosesFailure(reply) == reply.text
CombineResult(reply) == IF reply.mode = "fail" THEN FinalError ELSE reply.text

\* The provider answers (or fails) the pending combining request; the
\* reduction runs on to its next request, or make_final_summary returns and
\* summarize_segments and summarize_document run to their end.
\* modes: "fail", "concat" (the concatenating provider), "free" (a text of
\* its own, of a size in sizes).
CombineReply(d, modes, sizes) ==
    LET c == comp[d] IN
    /\ c.phase = "reduce"
    /\ \E reply \in {[mode |-> "fail", text |-> EmptyText] : x \in modes \cap {"fail"}}
                    \cup {[mode |-> "concat", text |-> Concatenation(Posted(c.stack))]
                            : x \in modes \cap {"concat"}}
                    \cup {[mode |-> "free", text |-> Text(n, {}, "resp")]
                            : n \in IF "free" \in modes THEN sizes ELSE {}} :
       LET ret == Return(c.stack, CombineResult(reply))
           next == [c EXCEPT !.stack = ret.stack,
                             !.combine = reply.mode,
                             !.split = c.split \/ ret.split,
                             !.concat = c.concat /\ reply.mode = "concat"]
       IN  CASE ret.status = "posted" ->
                  /\ comp' = [comp EXCEPT ![d] = next]
                  /\ UNCHANGED <<processing, futures, pc, outcome, cache>>
             [] ret.status = "overflow" ->
                  RaiseFrom(d, next, "RecursionError")
             [] OTHER ->
                  \E makedirs_ok \in BOOLEAN,
                     how \in {"written", "open_failed", "dump_failed"} :
                     LET done == [next EXCEPT !.phase = "returned",
                                              !.final_summary = ret.value,
                                              !.cache_write = how]
                         response == Returned(Response(d, done))
                     IN  IF ~makedirs_ok
                         THEN RaiseFrom(d, [next EXCEPT !.final_summary = ret.value],
                                        "OSError")
                         ELSE /\ comp' = [comp EXCEPT ![d] = done]
                              /\ cache' = [cache EXCEPT ![d] =
                                     CacheAfter(cache[d], how, done.summaries,
                                                done.all_chunks[1].filename)]
                              /\ futures' = [futures EXCEPT ![c.future] =
                                     IF futures[c.future].state = "pending"
                                     THEN [@ EXCEPT !.state = "result",
                                                    !.result = response]
                                     ELSE @]
                              /\ processing' = Popped(processing, d, FALSE)
                              /\ pc' = [pc EXCEPT ![c.owner] = "done"]
                              /\ outcome' = [outcome EXCEPT ![c.owner] = response]
    /\ UNCHANGED <<collection, request, awaiting, plan, extraction, last>>

\* A request that joined resumes once the future it awaits has a result.
Resume(r) ==
    /\ pc[r] = "joined"
    /\ futures[awaiting[r]].state = "result"
    /\ pc' = [pc EXCEPT ![r] = "done"]
    /\ outcome' = [outcome EXCEPT ![r] = futures[awaiting[r]].result]
    /\ UNCHANGED <<collection, processing, futures, request, awaiting, comp,
                   cache, plan, extraction, last>>

\* --------------------------------------------------------- index operations

\* upload_pdf from the return of extract_pdf_chunks on: the chunks, not none,
\* indexed under a fresh file_id by one add_document_chunks, which may raise
\* (see Added); the exception leaves the handler and is answered 500.
Ingest(d, chunks, fault) ==
    /\ WhereFileId(collection, d) = <<>>
    /\ chunks # <<>>
    /\ collection' = Added(collection, chunks, d, Filename(d), fault)
    /\ last' = [NoCall EXCEPT
                  !.op = "upload", !.file_id = d, !.phase = "done",
                  !.given = Len(chunks),
                  !.status = IF fault = 0 THEN 200 ELSE 500,
                  !.count = IF fault = 0 THEN Len(chunks) ELSE 0]
    /\ UNCHANGED <<summarizeVars, cache>>

\* DELETE /delete/{file_id}: 200 when chunks were found, 404 otherwise.
Delete(d) ==
    LET success == delete_document_found(collection, d) IN
    /\ collection' = Remaining(collection, d)
    /\ last' = [NoCall EXCEPT
                  !.op = "delete", !.file_id = d, !.phase = "done",
                  !.found = success,
                  !.status = IF success THEN 200 ELSE 404]
    /\ UNCHANGED <<summarizeVars, cache>>

\* GET /documents
ListDocuments ==
    /\ last' = [NoCall EXCEPT
                  !.op = "list", !.phase = "done", !.status = 200,
                  !.documents = list_documents(collection),
                  !.count = total_chunks(collection)]
    /\ UNCHANGED <<collection, summarizeVars, cache>>

\* A call of find_relevant_chunks with the filter and top_k given.
Query(file_id_filter, top_k) ==
    /\ \E order \in Orders(Len(Matching(collection, file_id_filter))) :
          last' = [NoCall EXCEPT
                     !.op = "query", !.file_id = file_id_filter,
                     !.top_k = top_k, !.phase = "done",
                     !.results = find_relevant_chunks(collection, top_k,
                                                      file_id_filter, order)]
    /\ UNCHANGED <<collection, summarizeVars, cache>>

\* --------------------------------------------------------------------- ask

\* top_k=50
ASK_TOP_K == 50

\* Answer texts, word by word.
NotFoundAnswer ==
    <<"I", "couldn't", "find", "relevant", "information", "in", "the",
      "document", "to", "answer", "this", "question.">>
\* What generate_with_context returns when the provider call raised.
ProviderErrorAnswer ==
    <<"Error", "procesando", "la", "solicitud", "con", "el", "modelo", "de", "IA.">>

\* if not relevant_chunks
NoRelevantNever(relevant_chunks) == FALSE
NoRelevant(relevant_chunks) == relevant_chunks = <<>>

\* answer.startswith("Error")
StartsWithError(answer) == answer # <<>> /\ answer[1] = "Error"

\* generate_with_context: the provider's response, or the error text.
generate_with_context(reply) ==
    IF reply.ok THEN reply.text ELSE ProviderErrorAnswer

\* The sources of the response: one per retrieved chunk, in retrieval order.
Sources(relevant_chunks) ==
    [i \in 1 .. Len(relevant_chunks) |->
        [page |-> relevant_chunks[i].page, id |-> relevant_chunks[i].id]]

\* ask_question from its entry to its await: 400 for an empty question;
\* retrieval; the fixed answer when nothing was retrieved; otherwise the
\* request to the provider is out.
AskEnter(d, question) ==
    /\ ~(last.op = "ask" /\ last.phase = "provider")
    /\ IF question = ""
       THEN last' = [NoCall EXCEPT !.op = "ask", !.file_id = d,
                                   !.phase = "done", !.status = 400]
       ELSE \E order \in Orders(Len(Matching(collection, d))) :
            LET relevant_chunks ==
                    find_relevant_chunks(collection, ASK_TOP_K, d, order)
                asked == [NoCall EXCEPT !.op = "ask", !.file_id = d,
                                        !.top_k = ASK_TOP_K,
                                        !.results = relevant_chunks]
            IN  IF NoRelevant(relevant_chunks)
                THEN last' = [asked EXCEPT !.phase = "done", !.status = 200,
                                           !.answer = NotFoundAnswer,
                                           !.sources = <<>>]
                ELSE last' = [asked EXCEPT !.phase = "provider",
                                           !.provider_calls = 1]
    /\ UNCHANGED <<collection, summarizeVars, cache>>

\* The provider answers (or fails) the request of the ask in flight.
AskReply(reply) ==
    /\ last.op = "ask" /\ last.phase = "provider"
    /\ LET answer == generate_with_context(reply)
           replied == [last EXCEPT !.phase = "done",
                                   !.provider = IF reply.ok THEN "ok" ELSE "failed",
                                   !.response = reply.text]
       IN  IF StartsWithError(answer)
           THEN last' = [replied EXCEPT !.status = 502]
           ELSE last' = [replied EXCEPT !.status = 200,
                                        !.answer = answer,
                                        !.sources = Sources(last.results)]
    /\ UNCHANGED <<collection, summarizeVars, cache>>

\* ------------------------------------------------------------ extract-full

\* extract_full_text on the cache file `record`: json.load raises on a file
\* that open(.., "w") truncated and json.dump did not finish, and so does
\* os.makedirs when it fails; every exception is answered 500.  No file, or
\* no summaries in it, is answered 404.
extract_full_text(record, makedirs_ok) ==
    LET raised == ~makedirs_ok \/ record.state = "partial"
        summaries == IF record.state = "complete" THEN record.summaries ELSE <<>>
        filename == IF record.state = "complete" THEN record.filename ELSE "unknown"
    IN  IF raised THEN [status |-> 500, summaries |-> <<>>, filename |-> ""]
        ELSE IF summaries = <<>>
        THEN [status |-> 404, summaries |-> <<>>, filename |-> ""]
        ELSE [status |-> 200, summaries |-> summaries, filename |-> filename]

\* GET /extract-full/{file_id}
ExtractFull(d) ==
    /\ \E makedirs_ok \in BOOLEAN :
          LET response == extract_full_text(cache[d], makedirs_ok) IN
          last' = [NoCall EXCEPT
                     !.op = "extract_full", !.file_id = d, !.phase = "done",
                     !.status = response.status,
                     !.summaries = response.summaries,
                     !.filename = response.filename]
    /\ UNCHANGED <<collection, summarizeVars, cache>>

\* The packing loop applied to the chunks and the ceiling drawn at the start.
Pack ==
    /\ ~plan.done
    /\ plan' = [plan EXCEPT !.segments = PlanSegments(plan.chunks, plan.ceiling),
                            !.done = TRUE]
    /\ UNCHANGED <<collection, processing, futures, pc, request, awaiting,
                   outcome, comp, cache, extraction, last>>

\* extract_pdf_chunks applied to the document drawn at the start.
Extract ==
    /\ ~extraction.done
    /\ extraction' = [extraction EXCEPT
                        !.chunks = extract_pdf_chunks(extraction.pdf),
                        !.done = TRUE]
    /\ UNCHANGED <<collection, processing, futures, pc, request, awaiting,
                   outcome, comp, cache, plan, last>>

\* ------------------------------------------------------------------ inputs

\* options.num_predict of the two provider requests: the longest responses a
\* provider that honours it returns.
NUM_PREDICT_SEGMENT == 800
NUM_PREDICT_FINAL == 2000

\* Token counts of chunk texts, around MAX_SEGMENT_TOKENS: two that fill a
\* segment exactly, one that exceeds it alone.
ChunkTokens == {200, MAX_SEGMENT_TOKENS - 200, MAX_SEGMENT_TOKENS + 100}

NonDecreasingPages(s) == \A i \in 1 .. Len(s) - 1 : s[i].page <= s[i + 1].page

\* Chunk lists as extract_pdf_chunks returns them: page by page.
ExtractedLists ==
    UNION {{s \in [1 .. n -> [page : 1 .. MaxPage, tok : ChunkTokens]] :
                NonDecreasingPages(s)} : n \in 1 .. MaxChunks}

\* Long documents, one short chunk a page: as many chunks as top_k, and one more.
LongLists ==
    {[i \in 1 .. n |-> Extracted(i, 5)] : n \in {TOP_K, TOP_K + 1}}

\* The documents uploaded in the service specification.
UploadLists == {<<Extracted(1, 200)>>}

\* A part that with its label is exactly at the combine ceiling.
PartAtCeiling == COMBINE_CEILING - Len(PartLabel)
\* Three parts of this size are at the ceiling with their three labels, and
\* under it once the first two are concatenated.
PartThird ==
    (COMBINE_CEILING - 3 * Len(PartLabel) - 2 * Len(PartSeparator) + 2) \div 3

SegmentSizesWide == {0, NUM_PREDICT_SEGMENT, PartThird, PartAtCeiling}
CombineSizesWide == {0, NUM_PREDICT_FINAL}
SegmentSizesNarrow == {NUM_PREDICT_SEGMENT}
CombineSizesNarrow == {NUM_PREDICT_FINAL}

\* Inputs of the packing loop on its own.
PlanCeilings == {0, 1, MAX_SEGMENT_TOKENS, MAX_SEGMENT_TOKENS + 100}
PlanLists ==
    UNION {[1 .. n -> [page : {1}, tok : ChunkTokens \cup {0}]] : n \in 0 .. MaxChunks}

\* Documents of one to MaxChunks chunks for the index operations.
IndexLists == {[i \in 1 .. n |-> Extracted(1, 200)] : n \in 1 .. MaxChunks}
\* The filters a caller may pass, and the top_k values.
Filters == FileIds \cup {"", None}
QueryTopKs == {1, MaxChunks, TOP_K}

\* Questions, and what the provider may do with the request of an ask: fail,
\* or answer with a text, one of them beginning with the word Error.
Questions == {"", "who?"}
AskReplies ==
    {[ok |-> FALSE, text |-> <<>>]}
    \cup {[ok |-> TRUE, text |-> t] :
             t \in {<<>>, <<"On", "page", "2.">>, <<"Error", "codes", "are", "on", "page", "2.">>}}

\* Pages: a native text that is missing, too short, ordinary, or longer
\* than one sub-chunk, or an extraction that raises; and each way the OCR
\* fallback can go.
PageTextLengths == {0, MIN_TEXT_CHARS - 1, MIN_TEXT_CHARS, max_chars + 1}
Pages ==
    {Page(ok, IF ok THEN n ELSE 0, how, IF how = "text" THEN m ELSE 0) :
        ok \in BOOLEAN, n \in PageTextLengths,
        how \in {"raises", "no_image", "text"}, m \in {0, max_chars}}
Pdfs ==
    {[opens |-> FALSE, pages |-> <<>>]}
    \cup UNION {[opens : {TRUE}, pages : [1 .. n -> Pages]] : n \in 1 .. MaxChunks}

\* ---------------------------------------------------------- specifications

\* The service: uploads, concurrent summarize requests, provider replies.
Next ==
    \/ \E d \in FileIds, chunks \in UploadLists : Upload(d, chunks)
    \/ \E r \in Callers, d \in FileIds : SummarizeEnter(r, d)
    \/ \E d \in FileIds : SegmentReply(d, SegmentSizesNarrow)
    \/ \E d \in FileIds : CombineReply(d, {"fail", "free"}, CombineSizesNarrow)
    \/ \E r \in Callers : Resume(r)

Spec == Init /\ [][Next]_vars

\* One summarize request on an indexed document, the provider free in what
\* it returns: summarize_segments and make_final_summary.
InitSummarize ==
    \E n \in 1 .. MaxChunks :
        InitWith(add_document_chunks(<<>>,
                    [i \in 1 .. n |-> Extracted(i, MAX_SEGMENT_TOKENS + 100)],
                    "d1", Filename("d1")),
                 IdlePlan)

NextSummarize ==
    \/ SummarizeEnter(1, "d1")
    \/ SegmentReply("d1", SegmentSizesWide)
    \/ CombineReply("d1", {"fail", "concat", "free"}, CombineSizesWide)

SpecSummarize == InitSummarize /\ [][NextSummarize]_vars

\* One summarize request on each of a range of indexed documents: retrieval,
\* sort and packing.
InitRetrieve ==
    \E chunks \in ExtractedLists \cup LongLists :
        InitWith(add_document_chunks(
                    add_document_chunks(<<>>, <<Extracted(1, 200)>>, "d2",
                                        Filename("d2")),
                    chunks, "d1", Filename("d1")),
                 IdlePlan)

NextRetrieve ==
    \/ SummarizeEnter(1, "d1")
    \/ SegmentReply("d1", SegmentSizesNarrow)
    \/ CombineReply("d1", {"free"}, CombineSizesNarrow)

SpecRetrieve == InitRetrieve /\ [][NextRetrieve]_vars

\* The packing loop on every ceiling and chunk list of the bounds.
InitPlan ==
    \E chunks \in PlanLists, ceiling \in PlanCeilings :
        InitWith(<<>>, [IdlePlan EXCEPT
                          !.chunks = StoredChunks(chunks, "d1", Filename("d1")),
                          !.ceiling = ceiling])

NextPlan == Pack

SpecPlan == InitPlan /\ [][NextPlan]_vars

\* Summarize requests for an indexed document and for one never indexed,
\* with deletions at any moment.
InitDelete ==
    InitWith(add_document_chunks(<<>>, <<Extracted(1, 200)>>, "d1", Filename("d1")),
             IdlePlan)

NextDelete ==
    \/ \E r \in Callers, d \in FileIds : SummarizeEnter(r, d)
    \/ \E d \in FileIds : SegmentReply(d, SegmentSizesNarrow)
    \/ \E d \in FileIds : CombineReply(d, {"fail", "free"}, CombineSizesNarrow)
    \/ \E r \in Callers : Resume(r)
    \/ \E d \in FileIds : Delete(d)

SpecDelete == InitDelete /\ [][NextDelete]_vars

\* Summarize requests for one indexed document, one after the other or
\* overlapping, and readers of the summary cache at any moment.
InitCache == InitDelete

NextCache ==
    \/ \E r \in Callers : SummarizeEnter(r, "d1")
    \/ SegmentReply("d1", SegmentSizesNarrow)
    \/ CombineReply("d1", {"fail", "free"}, CombineSizesNarrow)
    \/ \E r \in Callers : Resume(r)
    \/ \E d \in FileIds : ExtractFull(d)

SpecCache == InitCache /\ [][NextCache]_vars

\* extract_pdf_chunks on every document of the bounds.
InitExtract ==
    \E pdf \in Pdfs :
        InitAll(<<>>, IdlePlan, [IdleExtraction EXCEPT !.pdf = pdf])

NextExtract == Extract

SpecExtract == InitExtract /\ [][NextExtract]_vars

\* The index under uploads (failing or not), deletions, listings and queries
\* in any order.
NextIndex ==
    \/ \E d \in FileIds, chunks \in IndexLists :
          \E fault \in 0 .. Len(chunks) + 1 : Ingest(d, chunks, fault)
    \/ \E d \in FileIds : Delete(d)
    \/ ListDocuments
    \/ \E f \in Filters, k \in QueryTopKs : Query(f, k)

SpecIndex == Init /\ [][NextIndex]_vars

\* Questions about an indexed document and about one that is not indexed.
InitAsk ==
    \E chunks \in ExtractedLists :
        InitWith(add_document_chunks(<<>>, chunks, "d1", Filename("d1")), IdlePlan)

NextAsk ==
    \/ \E d \in FileIds, question \in Questions : AskEnter(d, question)
    \/ \E reply \in AskReplies : AskReply(reply)

SpecAsk == InitAsk /\ [][NextAsk]_vars

\* ------------------------------------------------------------ single flight

\* The requests now running the summarization of d.
Computing(d) == {r \in Callers : pc[r] = "computing" /\ request[r] = d}
FuturesOf(d) == {f \in 1 .. Len(futures) : futures[f].file_id = d}
\* The requests that created or joined future f.
Attached(f) == {r \in Callers : pc[r] # "idle" /\ awaiting[r] = f}

\* C1: requests for one file_id that overlap share one computation.  At most
\* one request runs the summarization of a file_id at any time; the key of
\* _processing_summaries, when present, holds the one pending future of that
\* computation, created for this file_id; every request attached to a future
\* asked for its file_id, and only the request that created it computed
\* (one run per future); and once the computation has succeeded every
\* attached request that has returned holds the same response.
C1_SingleFlight ==
    /\ \A d \in FileIds : Cardinality(Computing(d)) <= 1
    /\ \A d \in FileIds :
          processing[d] # NoFuture =>
             /\ processing[d] \in FuturesOf(d)
             /\ futures[processing[d]].state = "pending"
             /\ Computing(d) = {futures[processing[d]].owner}
    /\ \A d \in FileIds : comp[d].runs = Cardinality(FuturesOf(d))
    /\ \A f \in 1 .. Len(futures) :
          /\ \A r \in Attached(f) : request[r] = futures[f].file_id
          /\ futures[f].state = "result" =>
                \A r \in Attached(f) :
                   pc[r] = "done" => outcome[r] = futures[f].result

\* Three overlapping requests for one file_id, one run, all three returned
\* the same response.
C1_Witness ==
    \E d \in FileIds :
        /\ comp[d].runs = 1
        /\ comp[d].phase = "returned"
        /\ \A r \in Callers :
              /\ pc[r] = "done"
              /\ request[r] = d
              /\ awaiting[r] = 1
              /\ outcome[r].kind = "response"
              /\ outcome[r] = outcome[1]

\* C2: when the computation raises after other requests have joined it, the
\* joined requests receive the failure: no request is left awaiting the
\* future of a computation whose request has already raised.
C2_JoinersReceiveFailure ==
    \A r \in Callers :
        pc[r] = "joined" =>
           LET f == awaiting[r]
               o == futures[f].owner
           IN  ~(/\ pc[o] = "done"
                 /\ outcome[o].kind = "error"
                 /\ futures[f].state = "pending")

\* C3: once the computation for a file_id settles, by success or by
\* failure, its key is gone from _processing_summaries (the key is present
\* exactly while a request runs the computation), and a request that arrives
\* when no computation is running starts a run of its own.
C3_KeyPresentOnlyWhileRunning ==
    \A d \in FileIds : processing[d] # NoFuture <=> Computing(d) # {}

C3_ArrivalStartsFresh ==
    \A r \in Callers, d \in FileIds :
        (pc[r] = "idle" /\ pc'[r] # "idle" /\ request'[r] = d /\ Computing(d) = {})
           => /\ pc'[r] \in {"computing", "done"}
              /\ comp'[d].runs = comp[d].runs + 1
              /\ comp'[d].owner = r
              /\ comp'[d].summaries = <<>>

\* C3, both parts: the key is present only while a request computes, in
\* every state, and every arrival that finds no computation starts one.
C3_RemovedWhenSettled ==
    [](C3_KeyPresentOnlyWhileRunning) /\ [][C3_ArrivalStartsFresh]_vars

\* A run for d raised, its request was answered 500, and a later request
\* for d is running a second computation.
C3_Witness ==
    \E d \in FileIds, r1, r2 \in Callers :
        /\ r1 < r2
        /\ request[r1] = d /\ pc[r1] = "done"
        /\ outcome[r1].kind = "error" /\ outcome[r1].status = 500
        /\ request[r2] = d /\ pc[r2] = "computing"
        /\ comp[d].runs = 2
        /\ comp[d].owner = r2

\* ------------------------------------------------------ summarize_segments

\* The run of the one request of SpecSummarize and SpecRetrieve.
run == comp["d1"]

\* C4: every combining request sent to the provider carries a labelled
\* concatenation under the combine ceiling: the list of the frame awaiting
\* the provider counts under COMBINE_CEILING tokens, every list of an
\* enclosing frame was at or over it and was split, not sent; and when the
\* per-segment summaries together are at or over the ceiling, a split came
\* before the request.
C4_RequestsUnderCeiling ==
    run.phase = "reduce" =>
       /\ run.stack # <<>>
       /\ \A k \in 1 .. Len(run.stack) :
             LET tokens == count_tokens(Combined(run.stack[k].parts)) IN
             IF k = Len(run.stack)
             THEN run.stack[k].pc = "post" /\ tokens < COMBINE_CEILING
             ELSE run.stack[k].pc # "post" /\ tokens >= COMBINE_CEILING
       /\ count_tokens(Combined(run.summaries)) >= COMBINE_CEILING =>
             run.split /\ Len(run.stack) >= 2

\* Summaries of over 10000 tokens together: a request is out, after a split.
C4_Witness ==
    /\ run.phase = "reduce"
    /\ SumTok(run.summaries) >= 10000
    /\ run.split
    /\ Len(run.stack) >= 2
    /\ count_tokens(Combined(Posted(run.stack))) < COMBINE_CEILING

\* C5: with a provider that concatenates its inputs, the final summary holds
\* every per-segment summary, and nothing else: its parts are the positions
\* 1..n of the list and its length is the sum of theirs.
C5_NoPartDropped ==
    (run.phase = "returned" /\ run.concat) =>
       /\ run.final_summary.src = 1 .. Len(run.summaries)
       /\ count_tokens(run.final_summary) = SumTok(run.summaries)

\* Three summaries that were split at the midpoint, reduced half by half and
\* combined, all by the concatenating provider.
C5_Witness ==
    /\ run.phase = "returned"
    /\ run.concat
    /\ run.split
    /\ Len(run.summaries) = 3
    /\ run.final_summary.src = {1, 2, 3}

\* C10: a provider failure on a segment does not abort summarize_segments.
\* The summaries list has one entry per provider call made, in segment
\* order: the error marker of segment i where call i failed, the response
\* otherwise; it has one entry per segment once the reduction runs; the step
\* that handles a failed call goes on to the next segment or to the
\* reduction; and a run that returned attempted the cache write, which, when
\* it succeeded, holds that list.
C10_SummariesShape ==
    /\ Len(run.summaries) = Len(run.replies)
    /\ Len(run.summaries) <= Len(run.segments)
    /\ \A i \in 1 .. Len(run.summaries) :
          run.summaries[i] =
             IF run.replies[i].ok THEN run.replies[i].text ELSE ErrorMarker(i)
    /\ run.phase \in {"reduce", "returned"} =>
          Len(run.summaries) = Len(run.segments)
    /\ run.phase = "returned" =>
          /\ run.cache_write # "none"
          /\ run.cache_write = "written" =>
                /\ cache["d1"].state = "complete"
                /\ cache["d1"].summaries = run.summaries

C10_FailureGoesOn ==
    (/\ run.phase = "segments"
     /\ Len(run.replies)' = Len(run.replies) + 1
     /\ ~(run.replies[Len(run.replies)]').ok)
       => /\ run.phase' \in {"segments", "reduce"}
          /\ run.summaries' = Append(run.summaries,
                                     ErrorMarker(Len(run.summaries) + 1))

\* C10, both parts: the shape of the summaries list in every state, and
\* every step that handles a failed segment call goes on with the run.
C10_SegmentFailureRecovered ==
    [](C10_SummariesShape) /\ [][C10_FailureGoesOn]_vars

\* Three segments, the call for the second failed, the others answered; the
\* run returned and the cache holds the three entries.
C10_Witness ==
    /\ run.phase = "returned"
    /\ Len(run.segments) = 3
    /\ run.replies[1].ok /\ ~run.replies[2].ok /\ run.replies[3].ok
    /\ run.summaries[2] = ErrorMarker(2)
    /\ cache["d1"].state = "complete"
    /\ cache["d1"].summaries = run.summaries

\* ------------------------------------------------------------ packing loop

RECURSIVE ChunkTokenSum(_)
ChunkTokenSum(segment) ==
    IF segment = <<>> THEN 0 ELSE Head(segment).tok + ChunkTokenSum(Tail(segment))

RECURSIVE Flatten(_)
Flatten(segments) ==
    IF segments = <<>> THEN <<>> ELSE Head(segments) \o Flatten(Tail(segments))

\* C6: every segment the packing loop produces holds at least one chunk, and
\* its chunks together count at most the ceiling, unless it is one chunk
\* that exceeds the ceiling alone.
C6_SegmentsWithinCeiling ==
    plan.done =>
       \A k \in 1 .. Len(plan.segments) :
          LET segment == plan.segments[k] IN
          /\ segment # <<>>
          /\ \/ ChunkTokenSum(segment) <= plan.ceiling
             \/ Len(segment) = 1 /\ segment[1].tok > plan.ceiling

\* Under the ceiling of summarize_document: one chunk over the ceiling in a
\* segment of its own, then two chunks that fill a segment exactly.
C6_Witness ==
    /\ plan.done
    /\ plan.ceiling = MAX_SEGMENT_TOKENS
    /\ Len(plan.segments) = 2
    /\ Len(plan.segments[1]) = 1
    /\ plan.segments[1][1].tok > MAX_SEGMENT_TOKENS
    /\ Len(plan.segments[2]) = 2
    /\ ChunkTokenSum(plan.segments[2]) = MAX_SEGMENT_TOKENS

\* C7: the segments, one after the other, are the input chunk sequence:
\* every chunk once, in the order given.
C7_SegmentsReconstructInput ==
    plan.done => Flatten(plan.segments) = plan.chunks

\* Three chunks packed into two segments.
C7_Witness ==
    /\ plan.done
    /\ Len(plan.chunks) = 3
    /\ Len(plan.segments) = 2
    /\ Flatten(plan.segments) = plan.chunks

\* --------------------------------------------------------------- retrieval

\* C8: the chunks summarize packs are in document order, that is by page
\* and, within a page, by chunk_index, whatever order the index returned.
C8_ChunksInDocumentOrder ==
    run.phase # "idle" =>
       \A i, j \in 1 .. Len(run.all_chunks) :
          i < j =>
             \/ run.all_chunks[i].page < run.all_chunks[j].page
             \/ /\ run.all_chunks[i].page = run.all_chunks[j].page
                /\ run.all_chunks[i].chunk_index < run.all_chunks[j].chunk_index

\* C9: the total_chunks summarize reports is the number of chunks stored for
\* the document, and every stored chunk is in a segment.
C9_EveryStoredChunkSummarized ==
    run.phase = "returned" =>
       /\ outcome[1].body.total_chunks = Len(WhereFileId(collection, "d1"))
       /\ \A k \in 1 .. Len(collection) :
             collection[k].file_id = "d1" =>
                \E i \in 1 .. Len(run.segments) :
                   \E j \in 1 .. Len(run.segments[i]) :
                      run.segments[i][j].id = collection[k].id

\* ------------------------------------------------------ document not found

\* What a summarize request r for d that finds no chunk does, within the step
\* of its arrival: it is answered 404, no provider request is outstanding or
\* was made for it, the cache is as it was and d has no key in
\* _processing_summaries.
NotFoundStep(r, d) ==
    /\ pc'[r] = "done"
    /\ outcome'[r] = Raised("HTTPException404")
    /\ comp'[d].phase = "raised"
    /\ comp'[d].replies = <<>>
    /\ comp'[d].stack = <<>>
    /\ cache' = cache
    /\ processing'[d] = NoFuture

\* C11 as stated: every summarize request that arrives while the index holds
\* no chunk of its file_id is answered 404, calls no provider, writes no
\* cache record and leaves no key for the file_id.
C11_NoChunksThenNotFound ==
    [][\A r \in Callers, d \in FileIds :
          (/\ pc[r] = "idle" /\ pc'[r] # "idle" /\ request'[r] = d
           /\ WhereFileId(collection, d) = <<>>)
             => NotFoundStep(r, d)]_vars

\* C11, amended: the same for every such request that arrives while no
\* summarization of the file_id is pending; and while the last run of a
\* file_id is one that ended so, the file_id has no key and the run made no
\* provider call.
C11_NotFoundUnlessPending ==
    /\ [](\A d \in FileIds :
            comp[d].exc = "HTTPException404" =>
               /\ processing[d] = NoFuture
               /\ comp[d].phase = "raised"
               /\ comp[d].replies = <<>> /\ comp[d].stack = <<>>
               /\ outcome[comp[d].owner] = Raised("HTTPException404"))
    /\ [][\A r \in Callers, d \in FileIds :
            (/\ pc[r] = "idle" /\ pc'[r] # "idle" /\ request'[r] = d
             /\ WhereFileId(collection, d) = <<>>
             /\ ~Pending(processing, d))
               => NotFoundStep(r, d)]_vars

\* The document was summarized, then deleted, and the next summarize request
\* for it was answered 404, leaving no key; the record of the earlier run is
\* still the one in the cache.
C11_Witness ==
    \E r \in Callers :
        /\ request[r] = "d1" /\ pc[r] = "done"
        /\ outcome[r] = Raised("HTTPException404")
        /\ comp["d1"].owner = r /\ comp["d1"].runs = 2
        /\ WhereFileId(collection, "d1") = <<>>
        /\ processing["d1"] = NoFuture
        /\ cache["d1"].state = "complete"

\* ------------------------------------------------------------ summary cache

\* What a reader of the record of d gets in the current state.
Seen(d) == extract_full_text(cache[d], TRUE)

\* C12: the cache record is replaced atomically: at every point a reader of
\* the record gets a complete record (or none, before the first one was
\* written), never an empty or partly written file; and a complete record,
\* once there, is only ever followed by a complete record.
C12_RecordNeverPartial ==
    \A d \in FileIds :
        /\ cache[d].state \in {"absent", "complete"}
        /\ Seen(d).status \in {200, 404}
        /\ Seen(d).status = 404 => cache[d].state = "absent"

\* C13: extract-full answers 404 while no run of the file_id has been made,
\* and once the latest run of the file_id has returned its response it
\* answers with the per-segment summaries of that run, in segment order.
C13_ExportIsLatestRun ==
    \A d \in FileIds :
        /\ comp[d].runs = 0 => Seen(d).status = 404
        /\ comp[d].phase = "returned" =>
              /\ Seen(d).status = 200
              /\ Seen(d).summaries = comp[d].summaries

\* -------------------------------------------------------------- extraction

\* C14: for a document that opens, the chunks are in non-decreasing page
\* order and every page 1..page_count has at least one chunk, a page
\* without usable text included.
C14_EveryPageHasAChunk ==
    (extraction.done /\ extraction.pdf.opens) =>
       /\ \A i \in 1 .. Len(extraction.chunks) - 1 :
             extraction.chunks[i].page <= extraction.chunks[i + 1].page
       /\ \A p \in 1 .. Len(extraction.pdf.pages) :
             \E i \in 1 .. Len(extraction.chunks) : extraction.chunks[i].page = p

\* ------------------------------------------------------------------- index

\* The file_ids that list_documents(coll) shows.
Listed(coll) == {e.file_id : e \in list_documents(coll)}

\* The step is a call that returned: `last` holds a new response.
Answered(op) == last'.op = op /\ last' # last

\* In every state: each document in the index is listed once, with its
\* filename and with as many chunks as were given when it was ingested (the
\* total_chunks its records carry), whatever was ingested or deleted since;
\* a listing lists exactly the documents in the index; after a delete no
\* chunk of the file_id remains and it is not listed.
C15_Listing ==
    /\ \A d \in FileIds :
          WhereFileId(collection, d) # <<>> =>
             [file_id |-> d, filename |-> Filename(d),
              chunks |-> WhereFileId(collection, d)[1].total_chunks]
                \in list_documents(collection)
    /\ Cardinality(list_documents(collection)) = Cardinality(Listed(collection))
    /\ last.op = "list" =>
          /\ last.documents = list_documents(collection)
          /\ last.count = Len(collection)
    /\ last.op = "delete" =>
          /\ WhereFileId(collection, last.file_id) = <<>>
          /\ last.file_id \notin Listed(collection)

\* In every step: an ingest that succeeded adds the document to the listing
\* with the number of chunks given and leaves the other documents' chunks as
\* they were; a delete answers found exactly when the file_id had chunks,
\* removes them all and leaves the others; a delete that follows a delete of
\* the same file_id answers not-found.
C15_Steps ==
    /\ (Answered("upload") /\ last'.status = 200) =>
          /\ [file_id |-> last'.file_id, filename |-> Filename(last'.file_id),
               chunks |-> last'.given] \in list_documents(collection')
          /\ last'.count = last'.given
          /\ \A e \in FileIds \ {last'.file_id} :
                WhereFileId(collection', e) = WhereFileId(collection, e)
    /\ Answered("delete") =>
          /\ last'.found <=> WhereFileId(collection, last'.file_id) # <<>>
          /\ last'.status = IF last'.found THEN 200 ELSE 404
          /\ WhereFileId(collection', last'.file_id) = <<>>
          /\ \A e \in FileIds \ {last'.file_id} :
                WhereFileId(collection', e) = WhereFileId(collection, e)
          /\ (last.op = "delete" /\ last.file_id = last'.file_id) =>
                ~last'.found /\ last'.status = 404

\* C15: the round trip of ingest, list_documents and delete, under any
\* interleaving of ingests and deletes of other documents.
C15_IngestListDelete == [](C15_Listing) /\ [][C15_Steps]_vars

\* d1 was deleted while d2, ingested with MaxChunks chunks, stays in the index;
\* a second delete of d1 has just answered not-found.
C15_Witness ==
    /\ last.op = "delete" /\ last.file_id = "d1" /\ ~last.found
    /\ last.status = 404
    /\ Listed(collection) = {"d2"}
    /\ [file_id |-> "d2", filename |-> Filename("d2"), chunks |-> MaxChunks]
          \in list_documents(collection)

\* C16: every result of a find_relevant_chunks call that was given a filter,
\* whatever its value, carries that file_id.
C16_ResultsMatchFilter ==
    (last.op = "query" /\ last.file_id # None) =>
       \A i \in 1 .. Len(last.results) :
          last.results[i].file_id = last.file_id

\* C17: the insert batch is indivisible.  An upload whose
\* add_document_chunks raised, at the embedding of any chunk or at the store
\* write, left the collection as it was, so that no chunk of the document is
\* seen by a query, by the stats or by list_documents; an upload that
\* succeeded added all the chunks given, and returned their number.
C17_Steps ==
    Answered("upload") =>
       IF last'.status = 200
       THEN /\ Len(WhereFileId(collection', last'.file_id)) = last'.given
            /\ Len(collection') = Len(collection) + last'.given
            /\ last'.count = last'.given
       ELSE /\ collection' = collection
            /\ last'.file_id \notin Listed(collection')
            /\ total_chunks(collection') = total_chunks(collection)
            /\ \A order \in Orders(Len(Matching(collection', last'.file_id))) :
                  find_relevant_chunks(collection', TOP_K, last'.file_id, order) = <<>>

C17_BatchIndivisible ==
    /\ [](last.op = "upload" =>
            Len(WhereFileId(collection, last.file_id)) = last.count)
    /\ [][C17_Steps]_vars

\* An upload of MaxChunks chunks failed, with
\* another document in the index: nothing of the failed document is there.
C17_Witness ==
    /\ last.op = "upload" /\ last.status = 500 /\ last.given = MaxChunks
    /\ WhereFileId(collection, last.file_id) = <<>>
    /\ Len(collection) > 0

\* --------------------------------------------------------------------- ask

\* C18: an ask whose retrieval, filtered to its file_id, returned no chunk
\* has returned at once, without a request to the provider: status 200, the
\* fixed not-found answer, no sources.  (The retrieval is made for every
\* question that is not empty.)
C18_NothingRetrievedFixedAnswer ==
    (/\ last.op = "ask" /\ last.top_k = ASK_TOP_K
     /\ WhereFileId(collection, last.file_id) = <<>>)
       => /\ last.results = <<>>
          /\ last.phase = "done"
          /\ last.status = 200
          /\ last.answer = NotFoundAnswer
          /\ last.sources = <<>>
          /\ last.provider_calls = 0

\* A question about d2, which has no chunk while d1 is indexed, was
\* answered with the fixed text.
C18_Witness ==
    /\ last.op = "ask" /\ last.file_id = "d2" /\ last.top_k = ASK_TOP_K
    /\ WhereFileId(collection, "d2") = <<>>
    /\ collection # <<>>
    /\ last.status = 200 /\ last.answer = NotFoundAnswer
    /\ last.provider_calls = 0

\* --------------------------------------------------------------- reduction

\* C19: make_final_summary ends, with a final summary, whatever the
\* provider answers: no call is made with the very list of the call that
\* makes it (such a call repeats itself whatever the provider answers), and
\* no run ends in RecursionError.
C19_ReductionTerminates ==
    /\ \A k \in 2 .. Len(run.stack) : run.stack[k].parts # run.stack[k - 1].parts
    /\ run.exc # "RecursionError"

\* The text of a failed combining call is held by the run: as the first or
\* second partial summary of an enclosing call, or as a part of the request
\* now awaiting the provider.
PassedOn(c) ==
    \/ \E k \in 1 .. Len(c.stack) :
          FinalError \in {c.stack[k].first, c.stack[k].second}
    \/ /\ c.phase = "reduce"
       /\ \E i \in 1 .. Len(Posted(c.stack)) : Posted(c.stack)[i] = FinalError

\* The step in which a combining call fails: the fixed text becomes the
\* final summary, and the cache write is made with the per-segment
\* summaries (the response is returned unless os.makedirs raises); or the
\* fixed text is passed on to the enclosing call, which goes on (to its next
\* request, or to the recursion limit as with any other text).
C20_FailureStep ==
    (/\ run.phase = "reduce" /\ run' # run
     /\ run'.combine = "fail")
       => \/ /\ run'.phase = "returned"
             /\ run'.final_summary = FinalError
             /\ outcome'[1].status = 200
             /\ outcome'[1].body.summary = FinalError
             /\ run'.cache_write # "none"
             /\ cache'["d1"] = CacheAfter(cache["d1"], run'.cache_write,
                                         run.summaries, Filename("d1"))
          \/ /\ run'.phase = "raised" /\ run'.exc = "OSError"
             /\ run'.final_summary = FinalError
          \/ /\ run'.phase = "reduce" \/ (run'.phase = "raised" /\ run'.exc = "RecursionError")
             /\ run'.summaries = run.summaries
             /\ PassedOn(run')

\* C20: a provider failure in a combining call does not abort the run.  In
\* every state the final summary of a run that has returned after a failed
\* last call is the fixed text, and in every step a failed call yields the
\* fixed text, as final summary or as a part for the enclosing call.
C20_CombineFailureRecovered ==
    /\ []((run.phase = "returned" /\ run.combine = "fail") =>
             /\ run.final_summary = FinalError
             /\ run.cache_write = "written" =>
                   cache["d1"].summaries = run.summaries)
    /\ [][C20_FailureStep]_vars

\* After a split the call for the first half failed, and its fixed text is
\* the first part of the request that combines the two halves.
C20_Witness ==
    /\ run.phase = "reduce"
    /\ run.split
    /\ Len(Posted(run.stack)) = 2
    /\ Posted(run.stack)[1] = FinalError
    /\ Posted(run.stack)[2].kind = "resp"

\* --------------------------------------------------------- ask, the answer

\* C21: an ask that reached the provider has ended with a service error
\* exactly when the provider call failed; when the call succeeded, the
\* response is 200 with the provider's text, whatever it says, as the answer
\* and one source per retrieved chunk in the order of the retrieval.
C21_ErrorIffProviderFailed ==
    (last.op = "ask" /\ last.phase = "done" /\ last.provider # "none")
       => /\ last.status = 502 <=> last.provider = "failed"
          /\ last.provider = "ok" =>
                /\ last.status = 200
                /\ last.answer = last.response
                /\ last.sources = Sources(last.results)

====
